---------------------------- MODULE Spec2Model ----------------------------
(***************************************************************************)
(* ChronoSort: the date resolver and the directory organizer of            *)
(* chronosort-cli/chronosort.py and chronosort-gui/chronosort_gui.py.      *)
(*                                                                         *)
(* File names are sequences of one-character strings, so that startswith,  *)
(* endswith, lower, os.path.splitext, strftime and the "_N" suffix are     *)
(* computed on the characters as the code computes them.  A path is a      *)
(* sequence of names relative to the target directory.                     *)
(***************************************************************************)
EXTENDS Integers, Sequences, FiniteSets, TLC

(***************************************************************************)
(* Bounds of the model.                                                    *)
(***************************************************************************)
\* at most this many immediate entries in the target directory
MaxEntries == 3
\* at most this many runs of organize_files on the same directory
MaxRuns == 2

-----------------------------------------------------------------------------
(***************************************************************************)
(* Strings.                                                                *)
(***************************************************************************)

\* str.startswith
startswith(s, p) ==
    /\ Len(p) <= Len(s)
    /\ SubSeq(s, 1, Len(p)) = p

\* str.endswith
endswith(s, p) ==
    /\ Len(p) <= Len(s)
    /\ SubSeq(s, Len(s) - Len(p) + 1, Len(s)) = p

\* str.lower, on the letters the model's names use
LowerChar(c) ==
    CASE c = "J" -> "j"
      [] c = "P" -> "p"
      [] c = "G" -> "g"
      [] c = "B" -> "b"
      [] OTHER -> c

lower(s) == [i \in 1..Len(s) |-> LowerChar(s[i])]

\* str.rfind of one character: the last index holding c, 0 when there is none
\* (Python's -1, shifted by the 1-based indexing)
rfind(s, c) ==
    IF \E i \in 1..Len(s) : s[i] = c
    THEN CHOOSE i \in 1..Len(s) : s[i] = c /\ \A j \in (i+1)..Len(s) : s[j] # c
    ELSE 0

\* os.path.splitext of a name without a separator: the extension starts at the
\* last dot, unless only dots precede that dot
splitext(name) ==
    LET dot == rfind(name, ".")
    IN  IF dot > 0 /\ \E i \in 1..(dot - 1) : name[i] # "."
        THEN <<SubSeq(name, 1, dot - 1), SubSeq(name, dot, Len(name))>>
        ELSE <<name, <<>>>>

Digit(n) ==
    CASE n = 0 -> "0" [] n = 1 -> "1" [] n = 2 -> "2" [] n = 3 -> "3"
      [] n = 4 -> "4" [] n = 5 -> "5" [] n = 6 -> "6" [] n = 7 -> "7"
      [] n = 8 -> "8" [] n = 9 -> "9"

\* str(n) of a natural number, as an f-string formats {counter}
RECURSIVE IntToStr(_)
IntToStr(n) ==
    IF n < 10 THEN <<Digit(n)>> ELSE IntToStr(n \div 10) \o <<Digit(n % 10)>>

\* the zero-padded field of width w that strftime writes for %Y, %m and %d
RECURSIVE Pad(_, _)
Pad(n, w) ==
    IF w = 0 THEN <<>> ELSE Pad(n \div 10, w - 1) \o <<Digit(n % 10)>>

IsDigit(c) == c \in {"0", "1", "2", "3", "4", "5", "6", "7", "8", "9"}

DigitVal(c) == CHOOSE n \in 0..9 : Digit(n) = c

\* int() of a string of digits
RECURSIVE StrToInt(_)
StrToInt(s) ==
    IF s = <<>> THEN 0
    ELSE 10 * StrToInt(SubSeq(s, 1, Len(s) - 1)) + DigitVal(s[Len(s)])

-----------------------------------------------------------------------------
(***************************************************************************)
(* Calendar dates.  A date is a record [y, m, d].                          *)
(***************************************************************************)

IsLeap(y) == (y % 4 = 0 /\ y % 100 # 0) \/ y % 400 = 0

DaysInMonth(y, m) ==
    IF m = 2 THEN (IF IsLeap(y) THEN 29 ELSE 28)
    ELSE IF m \in {4, 6, 9, 11} THEN 30 ELSE 31

\* the values datetime accepts: anything else makes strptime raise ValueError
ValidDate(y, m, d) ==
    /\ y \in 1..9999
    /\ m \in 1..12
    /\ d \in 1..DaysInMonth(y, m)

\* datetime.fromtimestamp(ts), date part, for a host whose local time is UTC:
\* the proleptic Gregorian date of the day holding second ts of the epoch
fromtimestamp(ts) ==
    LET z   == (ts \div 86400) + 719468
        era == z \div 146097
        doe == z - era * 146097
        yoe == (doe - doe \div 1460 + doe \div 36524 - doe \div 146096) \div 365
        doy == doe - (365 * yoe + yoe \div 4 - yoe \div 100)
        mp  == (5 * doy + 2) \div 153
        d   == doy - (153 * mp + 2) \div 5 + 1
        m   == IF mp < 10 THEN mp + 3 ELSE mp - 9
        y   == yoe + era * 400 + (IF m <= 2 THEN 1 ELSE 0)
    IN  [y |-> y, m |-> m, d |-> d]

\* strftime('%Y-%m-%d')
strftime(date) ==
    Pad(date.y, 4) \o <<"-">> \o Pad(date.m, 2) \o <<"-">> \o Pad(date.d, 2)

\* the fields of s between the occurrences of the separator c
RECURSIVE Split(_, _)
Split(s, c) ==
    IF \E i \in 1..Len(s) : s[i] = c
    THEN LET k == CHOOSE i \in 1..Len(s) : s[i] = c /\ \A j \in 1..(i-1) : s[j] # c
         IN  <<SubSeq(s, 1, k - 1)>> \o Split(SubSeq(s, k + 1, Len(s)), c)
    ELSE <<s>>

AllDigits(s) == \A i \in 1..Len(s) : IsDigit(s[i])

\* is_date_folder: datetime.strptime(folder_name, '%Y-%m-%d') does not raise.
\* %Y takes four digits, %m and %d one or two, and the date must exist.
is_date_folder(folder_name) ==
    LET parts == Split(folder_name, "-")
    IN  /\ Len(parts) = 3
        /\ Len(parts[1]) = 4 /\ AllDigits(parts[1])
        /\ Len(parts[2]) \in {1, 2} /\ AllDigits(parts[2])
        /\ Len(parts[3]) \in {1, 2} /\ AllDigits(parts[3])
        /\ ValidDate(StrToInt(parts[1]), StrToInt(parts[2]), StrToInt(parts[3]))


-----------------------------------------------------------------------------
(***************************************************************************)
(* The date resolver.                                                      *)
(*                                                                         *)
(* A file is a record [name, exif, statOk, birth, ctime, mtime]:           *)
(*   exif    what Image.open(...)._getexif() yields: [state |-> "error"]   *)
(*           when it raises, [state |-> "none"] when it returns None, or   *)
(*           [state |-> "dict", tags |-> a function from tag names to      *)
(*           values];                                                      *)
(*   a tag value is [type, fits, y, m, d]: type "str" or "other" (bytes,   *)
(*           a number, a tuple), fits = the text has the shape             *)
(*           YYYY:MM:DD HH:MM:SS with a valid time of day, and y, m, d     *)
(*           the numbers it holds;                                         *)
(*   statOk  os.stat succeeds; birth, ctime, mtime are its st_birthtime,   *)
(*           st_ctime and st_mtime in seconds.                             *)
(* The host is a record [pillow, birthtime, now]: PILLOW_AVAILABLE,        *)
(* whether os.stat results have st_birthtime, and the current time.        *)
(***************************************************************************)

None == <<>>

image_extensions ==
    { <<".", "j", "p", "g">>, <<".", "j", "p", "e", "g">>,
      <<".", "t", "i", "f", "f">>, <<".", "t", "i", "f">> }

date_tags == <<"DateTimeOriginal", "DateTimeDigitized", "DateTime">>

\* datetime.strptime(value, '%Y:%m:%d %H:%M:%S') returns (does not raise ValueError)
strptime_ok(value) == value.fits /\ ValidDate(value.y, value.m, value.d)

\* the loop over date_tags: the first tag, in the order of date_tags, whose value
\* parses gives the date; ValueError goes on to the next tag; a value that is
\* not a string makes strptime raise TypeError, which only the outer handler
\* catches, and the function then returns None
RECURSIVE ScanTags(_, _)
ScanTags(exif_data, i) ==
    IF i > Len(date_tags) THEN None
    ELSE IF date_tags[i] \notin DOMAIN exif_data THEN ScanTags(exif_data, i + 1)
    ELSE LET value == exif_data[date_tags[i]]
         IN  IF value.type # "str" THEN None
             ELSE IF strptime_ok(value)
                  THEN strftime([y |-> value.y, m |-> value.m, d |-> value.d])
                  ELSE ScanTags(exif_data, i + 1)

get_exif_date(file, host) ==
    IF ~host.pillow THEN None
    ELSE IF ~\E ext \in image_extensions : endswith(lower(file.name), ext) THEN None
    ELSE IF file.exif.state # "dict" THEN None
    ELSE ScanTags(file.exif.tags, 1)

\* FileSystemDate with the later of the two time stamps taken
FileSystemDate_later(file, host) ==
    IF ~file.statOk THEN strftime(fromtimestamp(host.now))
    ELSE LET creation_time == IF host.birthtime THEN file.birth ELSE file.ctime
             file_timestamp == IF creation_time >= file.mtime
                               THEN creation_time ELSE file.mtime
         IN  strftime(fromtimestamp(file_timestamp))

\* the file system part of get_file_date; a failing os.stat raises, and the
\* handler returns today's date
FileSystemDate(file, host) ==
    IF ~file.statOk THEN strftime(fromtimestamp(host.now))
    ELSE LET creation_time == IF host.birthtime THEN file.birth ELSE file.ctime
             modification_time == file.mtime
             file_timestamp == IF creation_time <= modification_time
                               THEN creation_time ELSE modification_time
         IN  strftime(fromtimestamp(file_timestamp))

\* chronosort.py get_file_date
get_file_date(file, host) ==
    LET exif_date == get_exif_date(file, host)
    IN  IF exif_date # None THEN exif_date ELSE FileSystemDate(file, host)

\* chronosort_gui.py get_file_date: no EXIF lookup
gui_get_file_date(file, host) == FileSystemDate(file, host)

-----------------------------------------------------------------------------
(***************************************************************************)
(* The file system under the target directory.                             *)
(*                                                                         *)
(* fs is a function from paths to nodes [kind, id]: kind is "file" or      *)
(* "dir", id names the node's content (a file keeps its id when it is      *)
(* moved; 0 is a folder that a run created).                               *)
(***************************************************************************)

\* os.path.exists
exists(f, p) == p \in DOMAIN f

\* os.path.isdir
isdir(f, p) == p \in DOMAIN f /\ f[p].kind = "dir"

\* os.listdir(directory_path): the names of the immediate entries
listdir(f) == { p[1] : p \in { q \in DOMAIN f : Len(q) = 1 } }

dirname(p) == SubSeq(p, 1, Len(p) - 1)

basename(p) == p[Len(p)]

\* os.makedirs(folder_path)
makedirs(f, p) ==
    [q \in DOMAIN f \cup {p} |-> IF q = p THEN [kind |-> "dir", id |-> 0] ELSE f[q]]

\* p is src or lies below it
Under(p, src) == Len(p) >= Len(src) /\ SubSeq(p, 1, Len(src)) = src

\* os.rename(src, dst): it needs dst's folder to be a directory, it replaces a
\* file that is at dst, and what lies below src goes with it
rename(f, src, dst) ==
    IF dirname(dst) # <<>> /\ ~isdir(f, dirname(dst))
    THEN [ok |-> FALSE, fs |-> f]
    ELSE LET moved == { q \in DOMAIN f : Under(q, src) }
             to(q) == dst \o SubSeq(q, Len(src) + 1, Len(q))
             kept  == { q \in DOMAIN f : ~Under(q, src) /\ ~Under(q, dst) }
         IN  [ok |-> TRUE,
              fs |-> [q \in kept \cup { to(x) : x \in moved } |->
                         IF q \in kept THEN f[q]
                         ELSE f[CHOOSE x \in moved : to(x) = q]]]

\* shutil.move(src, dst) inside one file system: into dst when dst is
\* a directory (an error when the name is taken there), else a rename; io_error
\* is an error of the operating system (permission, disk, lock), after which
\* nothing has changed
shutil_move(f, src, dst, io_error) ==
    IF io_error \/ ~exists(f, src) THEN [ok |-> FALSE, fs |-> f]
    ELSE IF isdir(f, dst)
         THEN IF exists(f, dst \o <<basename(src)>>)
              THEN [ok |-> FALSE, fs |-> f]
              ELSE rename(f, src, dst \o <<basename(src)>>)
         ELSE rename(f, src, dst)

-----------------------------------------------------------------------------
(***************************************************************************)
(* The steps of organize_files that the two front ends share.              *)
(***************************************************************************)

\* target_refused without the handler of PermissionError around os.listdir
target_refused_unlisted(state) == state \in {"missing", "notdir"}

\* organize_files of chronosort.py returns False before the loop: the target
\* does not exist, is not a directory, or os.listdir raises PermissionError
target_refused(state) == state \in {"missing", "notdir", "noperm"}

\* is_subdirectory with only the date folders skipped
is_subdirectory_date_only(f, item) == isdir(f, <<item>>) /\ is_date_folder(item)

\* os.path.isdir(item_path): the entry is a subdirectory, which the loop skips
is_subdirectory(f, item) == isdir(f, <<item>>)

\* os.path.basename(__file__) of the command line program
script_name == <<"c", "h", "r", "o", "n", "o", "s", "o", "r", "t", ".", "p", "y">>

\* cli_skips without the test of the program's own name
cli_skips_hidden_only(item) == startswith(item, <<".">>)

\* chronosort.py: item.startswith('.') or item == os.path.basename(__file__)
cli_skips(item) == startswith(item, <<".">>) \/ item = script_name

\* chronosort_gui.py: item.startswith('.') or item.endswith('.DS_Store')
gui_skips(item) ==
    \/ startswith(item, <<".">>)
    \/ endswith(item, <<".", "D", "S", "_", "S", "t", "o", "r", "e">>)

\* create_date_folder needs os.makedirs: the folder path does not exist
needs_makedirs(f, date_string) == ~exists(f, <<date_string>>)

\* create_date_folder, when os.makedirs does not raise
create_date_folder(f, date_string) ==
    IF needs_makedirs(f, date_string) THEN makedirs(f, <<date_string>>) ELSE f

\* folder_step with the folder created in a dry run too
folder_step_always(f, dry, date_string) == create_date_folder(f, date_string)

\* the folder step of an entry: created in execute mode, only named in a dry run
folder_step(f, dry, date_string) ==
    IF ~dry THEN create_date_folder(f, date_string) ELSE f

\* free_name with an if in place of the while: the first candidate is taken
free_name_first(f, folder, base, ext, counter) ==
    base \o <<"_">> \o IntToStr(counter) \o ext

\* the while loop: base_counter.ext for the first counter whose name is free
RECURSIVE free_name(_, _, _, _, _)
free_name(f, folder, base, ext, counter) ==
    LET new_name == base \o <<"_">> \o IntToStr(counter) \o ext
    IN  IF exists(f, <<folder, new_name>>)
        THEN free_name(f, folder, base, ext, counter + 1)
        ELSE new_name

\* destination_name without the test of os.path.exists
destination_name_plain(f, folder, item) == item

\* the name the file gets in the date folder
destination_name(f, folder, item) ==
    IF exists(f, <<folder, item>>)
    THEN free_name(f, folder, splitext(item)[1], splitext(item)[2], 1)
    ELSE item

\* the move step of an entry: nothing moves in a dry run
move_step(f, dry, item, destination_path, io_error) ==
    IF dry THEN [ok |-> TRUE, fs |-> f]
    ELSE shutil_move(f, <<item>>, destination_path, io_error)

Event(ev, item, date, dest) == [ev |-> ev, item |-> item, date |-> date, dest |-> dest]

-----------------------------------------------------------------------------
(***************************************************************************)
(* The directories the model starts from: any choice of at most MaxEntries *)
(* of these immediate entries.                                             *)
(***************************************************************************)

NoExif == [state |-> "none"]

TagValue(type, fits, y, m, d) ==
    [type |-> type, fits |-> fits, y |-> y, m |-> m, d |-> d]

\* 1685620800 is noon of 2023-06-01, 1688990400 noon of 2023-07-10 (UTC)
Plain(name, ctime, mtime) ==
    [name |-> name, exif |-> NoExif, statOk |-> TRUE,
     birth |-> mtime, ctime |-> ctime, mtime |-> mtime]

Entries ==
    << [name |-> <<"a", ".", "t", "x", "t">>, kind |-> "file", id |-> 1,
        children |-> {}],
       [name |-> <<"a", "_", "1", ".", "t", "x", "t">>, kind |-> "file", id |-> 2,
        children |-> {}],
       [name |-> <<".", "h">>, kind |-> "file", id |-> 3, children |-> {}],
       [name |-> <<"2", "0", "2", "3", "-", "0", "6", "-", "0", "1">>,
        kind |-> "dir", id |-> 4,
        children |-> {[name |-> <<"a", ".", "t", "x", "t">>, id |-> 5],
                      [name |-> <<"a", "_", "1", ".", "t", "x", "t">>, id |-> 12]}],
       [name |-> <<"a", "r", "c", "h", "i", "v", "e">>, kind |-> "dir", id |-> 6,
        children |-> {[name |-> <<"a", ".", "t", "x", "t">>, id |-> 7]}],
       [name |-> script_name, kind |-> "file", id |-> 8, children |-> {}],
       [name |-> <<"b", ".", "J", "P", "G">>, kind |-> "file", id |-> 9,
        children |-> {}],
       [name |-> <<".", "g", "i", "t">>, kind |-> "dir", id |-> 10,
        children |-> {[name |-> <<"c">>, id |-> 11]}] >>

\* what the date resolver reads of the file with this id
Meta(id) ==
    LET e == CHOOSE x \in { Entries[i] : i \in 1..Len(Entries) } : x.id = id
    IN  IF id = 9
        THEN [name |-> e.name,
              exif |-> [state |-> "dict",
                        tags |-> [t \in {"DateTimeOriginal"} |->
                                     TagValue("str", TRUE, 2023, 7, 10)]],
              statOk |-> TRUE,
              birth |-> 1685620800, ctime |-> 1685620800, mtime |-> 1685620800]
        ELSE IF id = 8 THEN Plain(e.name, 1688990400, 1688990400)
        ELSE Plain(e.name, 1688990400, 1685620800)

\* the tree holding the entries S
TreeOf(S) ==
    LET tops  == { <<Entries[i].name>> : i \in S }
        below == UNION { { <<Entries[i].name, c.name>> : c \in Entries[i].children }
                         : i \in S }
        node(p) ==
            LET e == CHOOSE x \in { Entries[i] : i \in S } : x.name = p[1]
            IN  IF Len(p) = 1 THEN [kind |-> e.kind, id |-> e.id]
                ELSE [kind |-> "file",
                      id |-> (CHOOSE c \in e.children : c.name = p[2]).id]
    IN  [p \in tops \cup below |-> node(p)]

\* a Linux host with Pillow installed: os.stat results have no st_birthtime
LinuxHost == [pillow |-> TRUE, birthtime |-> FALSE, now |-> 1700000000]

-----------------------------------------------------------------------------
(***************************************************************************)
(* State.                                                                  *)
(***************************************************************************)
VARIABLES
    frontend,       \* "cli" (chronosort.py) or "gui" (chronosort_gui.py)
    host,           \* the host the program runs on
    dirState,       \* the target path: "ok", "missing", "notdir" or "noperm"
    fs,             \* the file system under the target directory
    fs0,            \* fs before the first run
    fsStart,        \* fs when the current run started
    pc,             \* where the run is: "idle", "spawned", "loop", "entry",
                    \* "returned", "done"
    dry_run,        \* the dry_run argument of the current run
    todo,           \* the items of os.listdir not yet iterated
    cur,            \* the item of the iteration in flight
    files_moved,
    files_skipped,
    result,         \* what organize_files gave: "none", "True", "False", "raised";
                    \* "rejected" when start_organization showed an error instead
                    \* of calling it
    status,         \* what the front end reported of the run
    is_running,     \* ChronoSortGUI.is_running
    log,            \* the progress lines of the current run, as a set of events
    modes,          \* the dry_run argument of every run started so far
    probe,          \* date resolver alone: the file it is asked about
    resolved        \* date resolver alone: <<get_file_date, gui get_file_date>>

vars == <<frontend, host, dirState, fs, fs0, fsStart, pc, dry_run, todo, cur,
          files_moved, files_skipped, result, status, is_running, log, modes,
          probe, resolved>>

\* what no step of a run changes
env == <<frontend, host, dirState, fs0, probe, resolved>>

Init ==
    /\ frontend \in {"cli", "gui"}
    /\ host = LinuxHost
    /\ dirState \in {"ok", "missing", "notdir", "noperm"}
    /\ \E S \in SUBSET (1..Len(Entries)) :
          /\ Cardinality(S) <= MaxEntries
          /\ dirState \in {"missing", "notdir"} => S = {}
          /\ fs = TreeOf(S)
    /\ fs0 = fs
    /\ fsStart = fs
    /\ pc = "idle"
    /\ dry_run = FALSE
    /\ todo = {}
    /\ cur = <<>>
    /\ files_moved = 0
    /\ files_skipped = 0
    /\ result = "none"
    /\ status = "none"
    /\ is_running = FALSE
    /\ log = {}
    /\ modes = <<>>
    /\ probe = <<>>
    /\ resolved = <<>>

-----------------------------------------------------------------------------
(***************************************************************************)
(* The runs.                                                               *)
(***************************************************************************)

\* a new run starts: its counters, its log and the date resolver's probe
BeginRun(dry) ==
    /\ pc \in {"idle", "done"}
    /\ Len(modes) < MaxRuns
    /\ modes' = Append(modes, dry)
    /\ dry_run' = dry
    /\ fsStart' = fs
    /\ files_moved' = 0
    /\ files_skipped' = 0
    /\ log' = {}
    /\ cur' = <<>>
    /\ status' = "none"
    /\ UNCHANGED <<fs, env>>

\* chronosort.py main calls organize_files(directory_path, dry_run): the checks
\* of the target and os.listdir
cli_organize_files ==
    /\ frontend = "cli"
    /\ \E dry \in BOOLEAN : BeginRun(dry)
    /\ IF target_refused(dirState)
       THEN /\ result' = "False"
            /\ pc' = "returned"
            /\ todo' = {}
       ELSE /\ result' = "none"
            /\ pc' = "loop"
            /\ todo' = listdir(fs)
    /\ UNCHANGED is_running

\* ChronoSortGUI.start_organization: the checks of the target, then is_running
\* is set and the worker thread is started
start_organization ==
    /\ frontend = "gui"
    /\ \E dry \in BOOLEAN : BeginRun(dry)
    /\ todo' = {}
    /\ IF dirState \in {"missing", "notdir"}
       THEN /\ result' = "rejected"
            /\ pc' = "done"
            /\ UNCHANGED is_running
       ELSE /\ result' = "none"
            /\ pc' = "spawned"
            /\ is_running' = TRUE

\* ChronoSortGUI.cancel_operation, while the Cancel button is enabled
cancel_operation ==
    /\ frontend = "gui"
    /\ pc \in {"spawned", "loop", "entry", "returned"}
    /\ is_running
    /\ is_running' = FALSE
    /\ UNCHANGED <<env, fs, fsStart, pc, dry_run, todo, cur, files_moved,
                   files_skipped, result, status, log, modes>>

\* the worker thread enters ChronoSortGUI.organize_files: the is_running check
\* and os.listdir
gui_organize_files ==
    /\ frontend = "gui"
    /\ pc = "spawned"
    /\ IF ~is_running \/ dirState = "noperm"
       THEN /\ result' = "False"
            /\ pc' = "returned"
            /\ todo' = {}
       ELSE /\ result' = "none"
            /\ pc' = "loop"
            /\ todo' = listdir(fs)
    /\ UNCHANGED <<env, fs, fsStart, dry_run, cur, files_moved, files_skipped,
                   status, is_running, log, modes>>

\* loop_top without the check of is_running at the top of the loop
loop_top_unchecked ==
    /\ pc = "loop"
    /\ IF todo = {}
       THEN /\ result' = "True"
            /\ pc' = "returned"
            /\ UNCHANGED <<todo, cur>>
       ELSE /\ \E item \in todo :
                 /\ cur' = item
                 /\ todo' = todo \ {item}
            /\ pc' = "entry"
            /\ UNCHANGED result
    /\ UNCHANGED <<env, fs, fsStart, dry_run, files_moved, files_skipped,
                   status, is_running, log, modes>>

\* the top of the for loop: the summary and True after the last item; in the
\* GUI, False when is_running is off; else the next item, in the order of
\* os.listdir, which is any order
loop_top ==
    /\ pc = "loop"
    /\ IF todo = {}
       THEN /\ result' = "True"
            /\ pc' = "returned"
            /\ UNCHANGED <<todo, cur>>
       ELSE IF frontend = "gui" /\ ~is_running
       THEN /\ result' = "False"
            /\ pc' = "returned"
            /\ UNCHANGED <<todo, cur>>
       ELSE /\ \E item \in todo :
                 /\ cur' = item
                 /\ todo' = todo \ {item}
            /\ pc' = "entry"
            /\ UNCHANGED result
    /\ UNCHANGED <<env, fs, fsStart, dry_run, files_moved, files_skipped,
                   status, is_running, log, modes>>

\* the body of the for loop for the item cur; mk_error: os.makedirs raises;
\* io_error: shutil.move raises
process_entry ==
    /\ pc = "entry"
    /\ \E mk_error \in BOOLEAN, io_error \in BOOLEAN :
        LET item == cur
            skips == IF frontend = "cli" THEN cli_skips(item) ELSE gui_skips(item)
        IN  IF is_subdirectory(fs, item)
            THEN /\ log' = log \cup
                        { Event(IF is_date_folder(item) THEN "skip_date_folder"
                                ELSE "skip_directory", item, <<>>, <<>>) }
                 /\ pc' = "loop"
                 /\ UNCHANGED <<fs, files_moved, files_skipped, result>>
            ELSE IF skips
            THEN /\ log' = log \cup { Event("skip", item, <<>>, <<>>) }
                 /\ files_skipped' = files_skipped + 1
                 /\ pc' = "loop"
                 /\ UNCHANGED <<fs, files_moved, result>>
            ELSE
              LET file == Meta(fs[<<item>>].id)
                  file_date == IF frontend = "cli" THEN get_file_date(file, host)
                               ELSE gui_get_file_date(file, host)
                  made == ~dry_run /\ needs_makedirs(fs, file_date)
                  f1 == folder_step(fs, dry_run, file_date)
                  name == IF dry_run THEN item
                          ELSE destination_name(f1, file_date, item)
                  raises == made /\ mk_error
                  fails == ~dry_run /\ io_error
                  mv == move_step(f1, dry_run, item, <<file_date, name>>, fails)
                  folder_line ==
                      IF dry_run THEN { Event("would_create", item, file_date, <<>>) }
                      ELSE IF made THEN { Event("created", item, file_date, <<>>) }
                      ELSE {}
              IN  IF raises
                  THEN \* os.makedirs raises outside the try of the loop body
                       /\ result' = "raised"
                       /\ pc' = "returned"
                       /\ UNCHANGED <<fs, files_moved, files_skipped, log>>
                  ELSE /\ fs' = mv.fs
                       /\ pc' = "loop"
                       /\ UNCHANGED result
                       /\ IF mv.ok
                          THEN /\ files_moved' = files_moved + 1
                               /\ log' = log \cup folder_line \cup
                                    { Event(IF dry_run THEN "would_move" ELSE "moved",
                                            item, file_date, name) }
                               /\ UNCHANGED files_skipped
                          ELSE /\ files_skipped' = files_skipped + 1
                               /\ log' = log \cup folder_line \cup
                                    { Event("error_moving", item, file_date, <<>>) }
                               /\ UNCHANGED files_moved
    /\ UNCHANGED <<env, fsStart, dry_run, todo, cur, status, is_running, modes>>

\* chronosort.py main after organize_files: "Organization complete!", or
\* "Organization failed!" and exit status 1; an exception ends the program
cli_report ==
    /\ frontend = "cli"
    /\ pc = "returned"
    /\ status' = CASE result = "True" -> "complete"
                   [] result = "False" -> "failed"
                   [] OTHER -> "crashed"
    /\ pc' = "done"
    /\ UNCHANGED <<env, fs, fsStart, dry_run, todo, cur, files_moved,
                   files_skipped, result, is_running, log, modes>>

\* ChronoSortGUI.organize_files_thread after organize_files, then reset_ui_state
gui_report ==
    /\ frontend = "gui"
    /\ pc = "returned"
    /\ status' = CASE result = "raised" -> "error"
                   [] result = "True" /\ ~is_running -> "cancelled"
                   [] result = "True" -> "complete"
                   [] OTHER -> "failed"
    /\ is_running' = FALSE
    /\ pc' = "done"
    /\ UNCHANGED <<env, fs, fsStart, dry_run, todo, cur, files_moved,
                   files_skipped, result, log, modes>>

Next ==
    \/ cli_organize_files
    \/ start_organization
    \/ cancel_operation
    \/ gui_organize_files
    \/ loop_top
    \/ process_entry
    \/ cli_report
    \/ gui_report

Spec == Init /\ [][Next]_vars

-----------------------------------------------------------------------------
(***************************************************************************)
(* The date resolver alone: get_file_date asked about one file, on any     *)
(* host, for every combination of the three date tags and the three time   *)
(* stamps.                                                                 *)
(***************************************************************************)

\* what a date tag can hold: a well-formed date of its own (so that the tag a
\* result came from shows in the result), a text of another shape, the
\* well-formed "0000:00:00 00:00:00" of a camera whose clock was never set, or
\* a value that is not a string
TagValues(tag) ==
    { TagValue("str", TRUE, 2023, 6,
               CHOOSE i \in 1..Len(date_tags) : date_tags[i] = tag),
      TagValue("str", FALSE, 0, 0, 0),
      TagValue("str", TRUE, 0, 0, 0),
      TagValue("other", FALSE, 0, 0, 0) }

TagSets == SUBSET { date_tags[i] : i \in 1..Len(date_tags) }

ExifDicts ==
    UNION { [T -> UNION { TagValues(t) : t \in T }] : T \in TagSets }

ProbeExifs ==
    { [state |-> "error"], [state |-> "none"] } \cup
    { [state |-> "dict", tags |-> d] :
        d \in { x \in ExifDicts : \A t \in DOMAIN x : x[t] \in TagValues(t) } }

ProbeNames ==
    { <<"a", ".", "t", "x", "t">>, <<"b", ".", "J", "P", "G">>,
      <<"c", ".", "t", "i", "f">> }

ProbeTimes == { 1685620800, 1688990400 }

ProbeFiles ==
    { [name |-> n, exif |-> e, statOk |-> TRUE, birth |-> b, ctime |-> c, mtime |-> m] :
        n \in ProbeNames, e \in ProbeExifs, b \in ProbeTimes, c \in ProbeTimes,
        m \in ProbeTimes }
    \cup
    { [name |-> n, exif |-> e, statOk |-> FALSE, birth |-> 0, ctime |-> 0, mtime |-> 0] :
        n \in ProbeNames, e \in ProbeExifs }

Hosts ==
    { [pillow |-> p, birthtime |-> b, now |-> 1700000000] :
        p \in BOOLEAN, b \in BOOLEAN }

InitDate ==
    /\ frontend = "cli"
    /\ host \in Hosts
    /\ dirState = "ok"
    /\ fs = TreeOf({})
    /\ fs0 = fs
    /\ fsStart = fs
    /\ pc = "idle"
    /\ dry_run = FALSE
    /\ todo = {}
    /\ cur = <<>>
    /\ files_moved = 0
    /\ files_skipped = 0
    /\ result = "none"
    /\ status = "none"
    /\ is_running = FALSE
    /\ log = {}
    /\ modes = <<>>
    /\ probe \in ProbeFiles
    /\ resolved = <<>>

\* both front ends' get_file_date applied to the probe
resolve ==
    /\ resolved = <<>>
    /\ resolved' = [cli |-> get_file_date(probe, host),
                    gui |-> gui_get_file_date(probe, host)]
    /\ UNCHANGED <<frontend, host, dirState, fs, fs0, fsStart, pc, dry_run, todo,
                   cur, files_moved, files_skipped, result, status, is_running,
                   log, modes, probe>>

NextDate == resolve

SpecDate == InitDate /\ [][NextDate]_vars

-----------------------------------------------------------------------------
(***************************************************************************)
(* Properties of the date resolver (checked under SpecDate).               *)
(***************************************************************************)

\* the value is a string that strptime(value, '%Y:%m:%d %H:%M:%S') parses
Parses(value) ==
    /\ value.type = "str"
    /\ value.fits
    /\ ValidDate(value.y, value.m, value.d)

\* the file holds no date tag whose value parses
NoParseableTag(file) ==
    \/ file.exif.state # "dict"
    \/ \A t \in DOMAIN file.exif.tags : ~Parses(file.exif.tags[t])

Earlier(a, b) == IF a <= b THEN a ELSE b

DateOf(ts) == strftime(fromtimestamp(ts))

\* C8 as stated: for a file without parseable capture metadata (and readable
\* time stamps) the resolved date is the date of min(birth time, modification
\* time), and the date of the modification time when the platform exposes no
\* birth time.
C8_Original ==
    (resolved # <<>> /\ probe.statOk /\ NoParseableTag(probe)) =>
        LET expected == IF host.birthtime
                        THEN DateOf(Earlier(probe.birth, probe.mtime))
                        ELSE DateOf(probe.mtime)
        IN  resolved.cli = expected /\ resolved.gui = expected

\* C8 amended: for a file without parseable capture metadata whose time stamps
\* can be read, the resolved date is the date of min(creation time, modification
\* time), written YYYY-MM-DD, where the creation time is st_birthtime when the
\* platform exposes it and st_ctime otherwise.
C8_EarlierOfCreationAndModification ==
    (resolved # <<>> /\ probe.statOk /\ NoParseableTag(probe)) =>
        LET creation == IF host.birthtime THEN probe.birth ELSE probe.ctime
            expected == DateOf(Earlier(creation, probe.mtime))
        IN  /\ resolved.cli = expected
            /\ resolved.gui = expected
            /\ Len(expected) = 10
            /\ is_date_folder(expected)

\* C8 witness: no birth time on the platform, the inode change time on
\* 2023-06-01 before the modification time on 2023-07-10, and the resolved date
\* is 2023-06-01.
C8_Witness ==
    /\ resolved # <<>>
    /\ probe.statOk
    /\ NoParseableTag(probe)
    /\ ~host.birthtime
    /\ probe.ctime < probe.mtime
    /\ resolved.cli = <<"2", "0", "2", "3", "-", "0", "6", "-", "0", "1">>
    /\ DateOf(probe.mtime) = <<"2", "0", "2", "3", "-", "0", "7", "-", "1", "0">>

IsImageName(name) == \E ext \in image_extensions : endswith(lower(name), ext)

\* the tags of the file, in the order of preference, that are present with a
\* value that parses
ParseableTags(file) ==
    SelectSeq(date_tags,
              LAMBDA t : t \in DOMAIN file.exif.tags /\ Parses(file.exif.tags[t]))

\* C10 as stated: for an image file whose metadata is readable the resolved
\* date is the date of the first tag, in the order DateTimeOriginal,
\* DateTimeDigitized, DateTime, that is present with a value that parses; a
\* value that does not parse is passed over; only when no tag yields a date
\* does the file system decide.
C10_Original ==
    (resolved # <<>> /\ host.pillow /\ IsImageName(probe.name)
        /\ probe.exif.state = "dict") =>
        LET good == ParseableTags(probe)
        IN  IF good # <<>>
            THEN LET v == probe.exif.tags[good[1]]
                 IN  resolved.cli = strftime([y |-> v.y, m |-> v.m, d |-> v.d])
            ELSE resolved.cli = FileSystemDate(probe, host)

-----------------------------------------------------------------------------
(***************************************************************************)
(* Properties of the directory organizer (checked under Spec).             *)
(***************************************************************************)

Started == modes # <<>>

Ended == pc \in {"returned", "done"}

\* every run so far was in execute mode, and there were at least two
TwoExecuteRuns == Len(modes) >= 2 /\ \A i \in 1..Len(modes) : ~modes[i]

\* the lines of the log of these kinds
Lines(kinds) == { e \in log : e.ev \in kinds }

\* where the content id is in f
PathsOf(f, id) == { q \in DOMAIN f : f[q].id = id }

\* a folder named exactly YYYY-MM-DD
DateFolderName(name) == Len(name) = 10 /\ is_date_folder(name)

Suffixed(item, k) ==
    splitext(item)[1] \o <<"_">> \o IntToStr(k) \o splitext(item)[2]

\* C1: a run with dry_run = true leaves the file system as it was when the run
\* started: no folder created, no file moved, renamed or deleted.
C1_DryRunChangesNothing == (Started /\ dry_run) => fs = fsStart

\* C1 witness: a finished dry run that reported a move into a folder that does
\* not exist, and the file is where it was.
C1_Witness ==
    /\ pc = "done" /\ dry_run /\ result = "True" /\ files_moved >= 1
    /\ \E e \in log : /\ e.ev = "would_move"
                      /\ exists(fs, <<e.item>>)
                      /\ ~exists(fs, <<e.date>>)

\* C2: in execute mode a file whose date folder already holds its name is moved
\* to base_N.ext for the smallest N >= 1 whose name is free there (its own name
\* when that is free), and the step overwrites or removes no entry that existed.
C2_SmallestFreeSuffix ==
    [][ (pc = "entry" /\ ~dry_run /\ exists(fs, <<cur>>)) =>
          /\ \A q \in DOMAIN fs : q # <<cur>> => (q \in DOMAIN fs' /\ fs'[q] = fs[q])
          /\ ~exists(fs', <<cur>>) =>
               /\ Cardinality(PathsOf(fs', fs[<<cur>>].id)) = 1
               /\ LET at == CHOOSE q \in DOMAIN fs' : fs'[q].id = fs[<<cur>>].id
                  IN  /\ Len(at) = 2
                      /\ DateFolderName(at[1])
                      /\ IF exists(fs, <<at[1], cur>>)
                         THEN \E N \in 1..Cardinality(DOMAIN fs) :
                                /\ at[2] = Suffixed(cur, N)
                                /\ ~exists(fs, <<at[1], at[2]>>)
                                /\ \A k \in 1..(N - 1) :
                                      exists(fs, <<at[1], Suffixed(cur, k)>>)
                         ELSE at[2] = cur
      ]_vars

\* C2 witness: a.txt went into 2023-06-01, which held a.txt and a_1.txt, as
\* a_2.txt, and the two are still there.
C2_Witness ==
    LET folder == <<"2", "0", "2", "3", "-", "0", "6", "-", "0", "1">>
        a_txt == <<"a", ".", "t", "x", "t">>
    IN  /\ ~dry_run
        /\ Event("moved", a_txt, folder, <<"a", "_", "2", ".", "t", "x", "t">>) \in log
        /\ exists(fsStart, <<folder, a_txt>>)
        /\ exists(fs, <<folder, a_txt>>)
        /\ fs[<<folder, a_txt>>] = fsStart[<<folder, a_txt>>]
        /\ exists(fs, <<folder, <<"a", "_", "1", ".", "t", "x", "t">>>>)
        /\ exists(fs, <<folder, <<"a", "_", "2", ".", "t", "x", "t">>>>)

\* C3 as stated: after two runs in execute mode (the second returned success
\* and reported no failure) every file that was in the directory is at exactly
\* one path inside a YYYY-MM-DD subfolder.
C3_Original ==
    (pc = "done" /\ TwoExecuteRuns /\ dirState = "ok" /\ result = "True"
        /\ Lines({"error_moving"}) = {}) =>
        \A p \in DOMAIN fs0 :
            (Len(p) = 1 /\ fs0[p].kind = "file") =>
                /\ Cardinality(PathsOf(fs, fs0[p].id)) = 1
                /\ \A q \in PathsOf(fs, fs0[p].id) :
                      Len(q) = 2 /\ DateFolderName(q[1])

\* the front end leaves the name in place
LeftInPlace(name) ==
    \/ startswith(name, <<".">>)
    \/ frontend = "cli" /\ name = script_name
    \/ frontend = "gui"
         /\ endswith(name, <<".", "D", "S", "_", "S", "t", "o", "r", "e">>)

\* C3 amended: after two runs in execute mode every file that was there still
\* exists at exactly one path, with its content: in a YYYY-MM-DD subfolder when
\* a run moved it, else where it was; after a second run that returned success
\* the files still in the directory itself are those the front end leaves in
\* place and those whose move failed in that run; and the second run changed
\* nothing that was inside a subfolder when it started.
C3_NoLossAcrossRuns ==
    (pc = "done" /\ TwoExecuteRuns) =>
        /\ \A p \in DOMAIN fs0 :
              fs0[p].kind = "file" =>
                /\ Cardinality(PathsOf(fs, fs0[p].id)) = 1
                /\ \A q \in PathsOf(fs, fs0[p].id) :
                      \/ q = p
                      \/ /\ Len(p) = 1 /\ Len(q) = 2
                         /\ DateFolderName(q[1])
                         /\ isdir(fs, <<q[1]>>)
                /\ (Len(p) = 1 /\ result = "True" /\ exists(fs, p)
                       /\ fs[p] = fs0[p]) =>
                      \/ LeftInPlace(p[1])
                      \/ \E e \in Lines({"error_moving"}) : e.item = p[1]
        /\ \A q \in DOMAIN fsStart :
              Len(q) = 2 => (q \in DOMAIN fs /\ fs[q] = fsStart[q])

\* C3 witness: two runs in execute mode; the first moved a.txt (id 1) into a
\* date folder, the second left it there, and the hidden file .h is still in
\* the directory itself.
C3_Witness ==
    /\ pc = "done" /\ modes = <<FALSE, FALSE>> /\ result = "True"
    /\ exists(fs, <<<<".", "h">>>>)
    /\ \E q \in DOMAIN fsStart :
          /\ Len(q) = 2 /\ fsStart[q].id = 1
          /\ q \in DOMAIN fs /\ fs[q].id = 1
    /\ fsStart # fs0

\* C4: when the target does not exist, is not a directory or cannot be listed,
\* the run reports failure at once and the file system is unchanged: the loop
\* is never entered, nothing is logged, no folder is created, no file moved.
C4_TargetRefused ==
    (Started /\ dirState # "ok") =>
        /\ fs = fs0
        /\ log = {}
        /\ pc \in {"spawned", "returned", "done"}
        /\ files_moved = 0
        /\ Ended => result \in {"False", "rejected"}
        /\ pc = "done" => status \in {"failed", "none"}

\* C4 witness: a directory that holds entries and cannot be listed; the run in
\* execute mode ended with failure.
C4_Witness ==
    /\ dirState = "noperm" /\ pc = "done" /\ ~dry_run
    /\ result = "False" /\ status = "failed"
    /\ DOMAIN fs # {}

\* C5 as stated: in execute mode no failure while an entry is handled, the
\* creation of the destination folder included, aborts the run of the command
\* line program: the run returns, and every entry of the listing was iterated.
C5_Original ==
    (frontend = "cli" /\ ~dry_run /\ dirState = "ok" /\ Ended) =>
        /\ result = "True"
        /\ todo = {}

\* C6 as stated: whenever organize_files returns for a target that exists, is a
\* directory and can be listed, it returns success, in both front ends, a run
\* in which cancellation is requested included.
C6_Original == (Ended /\ dirState = "ok" /\ result # "raised") => result = "True"

\* C7 as stated: on a successful return files_moved counts the moved (or
\* would-move) files, files_skipped the skips and failures; every immediate
\* entry whose name starts with '.', and the program's own file, is left in
\* place and counted as skipped once.
C7_Original ==
    (Ended /\ result = "True") =>
        /\ files_moved = Cardinality(Lines({"moved", "would_move"}))
        /\ files_skipped = Cardinality(Lines({"skip", "error_moving"}))
        /\ \A n \in listdir(fsStart) :
              (startswith(n, <<".">>) \/ n = script_name) =>
                  /\ exists(fs, <<n>>) /\ fs[<<n>>] = fsStart[<<n>>]
                  /\ Event("skip", n, <<>>, <<>>) \in log

\* C7 amended: on a successful return files_moved counts the moved (or
\* would-move) files and files_skipped the skips and failures; every immediate
\* entry that is not a directory counts in exactly one of the two, once; those
\* the front end leaves in place (a name starting with '.', the own file of the
\* command line program, in the GUI a name ending in .DS_Store) stay where they
\* are and count as skipped; a subdirectory, hidden or not, counts in neither.
C7_CountersMatchLog ==
    (Ended /\ result = "True") =>
        /\ files_moved = Cardinality(Lines({"moved", "would_move"}))
        /\ files_skipped = Cardinality(Lines({"skip", "error_moving"}))
        /\ files_moved + files_skipped =
              Cardinality({ n \in listdir(fsStart) : fsStart[<<n>>].kind = "file" })
        /\ \A n \in listdir(fsStart) :
              LET counted == { e \in Lines({"moved", "would_move", "skip",
                                            "error_moving"}) : e.item = n }
              IN  IF fsStart[<<n>>].kind = "dir"
                  THEN counted = {}
                  ELSE /\ Cardinality(counted) = 1
                       /\ LeftInPlace(n) =>
                            /\ counted = { Event("skip", n, <<>>, <<>>) }
                            /\ exists(fs, <<n>>) /\ fs[<<n>>] = fsStart[<<n>>]

\* C7 witness: a successful run over the hidden file .h, the hidden directory
\* .git and a file that was moved: one skip, one move.
C7_Witness ==
    /\ pc = "done" /\ result = "True" /\ ~dry_run
    /\ isdir(fsStart, <<<<".", "g", "i", "t">>>>)
    /\ Event("skip", <<".", "h">>, <<>>, <<>>) \in log
    /\ files_skipped = 1
    /\ files_moved = 1

\* C9: every immediate subdirectory is skipped in both modes, whether its name
\* is a date or not: it is logged as a date folder or as a directory according
\* to its name, it stays where it is, and every entry that was inside it when
\* the run started (or before the first run) is unchanged.
C9_SubdirectoriesUntouched ==
    /\ \A p \in DOMAIN fs0 :
          isdir(fs0, <<p[1]>>) => (p \in DOMAIN fs /\ fs[p] = fs0[p])
    /\ \A p \in DOMAIN fsStart :
          isdir(fsStart, <<p[1]>>) => (p \in DOMAIN fs /\ fs[p] = fsStart[p])
    /\ Started =>
          \A e \in log :
              isdir(fsStart, <<e.item>>) =>
                  e.ev = (IF is_date_folder(e.item) THEN "skip_date_folder"
                          ELSE "skip_directory")

\* C9 witness: a run in execute mode over the date folder 2023-06-01 and the
\* directory archive, both logged as skipped, and a file was moved into the
\* date folder beside what it held.
C9_Witness ==
    LET folder == <<"2", "0", "2", "3", "-", "0", "6", "-", "0", "1">>
        archive == <<"a", "r", "c", "h", "i", "v", "e">>
    IN  /\ pc = "done" /\ ~dry_run
        /\ Event("skip_date_folder", folder, <<>>, <<>>) \in log
        /\ Event("skip_directory", archive, <<>>, <<>>) \in log
        /\ \E e \in log : e.ev = "moved" /\ e.date = folder
        /\ \A p \in DOMAIN fsStart : Len(p) = 2 => fs[p] = fsStart[p]


\* the worker thread of the GUI is in a run whose cancellation was requested
Cancelled == frontend = "gui" /\ Started /\ ~is_running

\* C11: in the GUI, once cancel_operation has set is_running to false, the
\* worker starts no further iteration: from the entry of organize_files or the
\* top of the loop it returns without touching the file system, the log or the
\* counters; only the iteration already in flight completes, and then the loop
\* is at its top again; the request itself and everything after the return
\* leave the file system as it is, so what was moved stays moved.
C11_NoWorkAfterCancel ==
    [][ /\ (Cancelled /\ pc \in {"spawned", "loop"}) =>
              /\ pc' = "returned"
              /\ fs' = fs
              /\ log' = log
              /\ files_moved' = files_moved
              /\ files_skipped' = files_skipped
        /\ (Cancelled /\ pc = "entry") =>
              /\ pc' \in {"loop", "returned"}
              /\ todo' = todo
        /\ (Cancelled /\ pc = "returned") => fs' = fs
        /\ (is_running /\ ~is_running') => fs' = fs
      ]_vars

\* C11 witness: a GUI run in execute mode that returned on a cancellation with
\* a file moved before it, still in its date folder, and an eligible file of
\* the listing not iterated, still in the directory.
C11_Witness ==
    /\ Cancelled /\ ~dry_run /\ pc = "returned" /\ result = "False"
    /\ \E e \in log : e.ev = "moved" /\ exists(fs, <<e.date, e.dest>>)
    /\ \E item \in todo :
          /\ exists(fs, <<item>>)
          /\ ~isdir(fs, <<item>>)
          /\ ~gui_skips(item)


\* C12: what a dry run reports is what a run in execute mode from the same
\* file system would do: every reported destination is the name the file
\* would get in its date folder, with the _N suffix when the folder holds its
\* name, and a folder creation is reported only for a folder execute mode
\* would create, one that does not exist.
C12_Original ==
    (Started /\ dry_run) =>
        \A e \in log :
            /\ e.ev = "would_move" =>
                  e.dest = destination_name(create_date_folder(fsStart, e.date),
                                            e.date, e.item)
            /\ e.ev = "would_create" => needs_makedirs(fsStart, e.date)

=============================================================================
